---- MODULE Spec2Model ----
(***************************************************************************)
(* Relay: the credential-pool and quota-rotation subsystem.                *)
(*                                                                         *)
(*   core/gcp_pool_manager.py  GoogleProjectPoolManager (credential pool)  *)
(*   core/usage_manager.py     UsageManager (usage ledger)                 *)
(*   core/bot_pool_manager.py  BotPoolManager (identity pool)              *)
(*   core/db_manager.py        DatabaseManager.get_state / set_state       *)
(*   bot_runner.py, app.py     run_bot and the process entry point         *)
(*                                                                         *)
(* The program is a single asyncio event loop: a coroutine runs without    *)
(* interruption from one suspension point to the next.  Every action       *)
(* below is one such uninterrupted stretch of one coroutine.  The only     *)
(* suspension points in the modelled code are the state store calls        *)
(* (acquiring a connection, executing the statement) and waiting for the   *)
(* rotation lock; TextTranslator.initialize_client has no await inside.    *)
(***************************************************************************)
EXTENDS Integers, Sequences, FiniteSets, TLC

\* ------------------------------------------------------------- bounds
\* Largest credential pool (GOOGLE_PROJECT_IDS) and identity pool (BOT_TOKENS).
MaxProjects == 2
MaxTokens == 2
\* Number of coroutines that run concurrently.
MaxTasks == 2
\* Wall-clock months 1..MaxMonth.
MaxMonth == 2
\* record_usage is called with 1..MaxChars characters, while the pool's
\* total stays within MaxUsage.
MaxChars == 2
MaxUsage == 7
\* The provider reports 0..MaxReport characters for an account.
MaxReport == 2
\* A hub message is translated into 1..MaxLangs languages.
MaxLangs == 2
\* TRANSLATION_API_LIMIT and PROJECT_SWITCH_THRESHOLD, scaled down.
limit == 5
rotation_threshold == 3

\* ---------------------------------------------------------- constants
\* TRANSLATION_API_LIMIT_SAFETY_FACTOR, in percent (0.98).
safety_factor_pct == 98
\* safe_limit = int(limit * safety_factor)
safe_limit == (limit * safety_factor_pct) \div 100

\* The defaults of TRANSLATION_API_LIMIT and PROJECT_SWITCH_THRESHOLD.
default_limit == 500000
default_rotation_threshold == 490000

\* A key that is absent from a persisted or in-memory dict.
NoIndex == -1
\* The empty string of _current_month, the absent "month" key.
NoMonth == 0
\* _active_project_id = None
NoProject == 0

VARIABLES
    \* ---- environment and configuration
    now,                 \* the wall-clock month, datetime.now().strftime("%Y-%m")
    project_ids,         \* GoogleProjectPoolManager.project_ids, a sequence
    tokens,              \* BotPoolManager.tokens, a sequence
    monitoring_clients,  \* UsageManager.monitoring_clients: the ids with a client
    valid_creds,         \* the ids whose credential source loads
    creds_match,         \* len(project_ids) = len(credential_sources)
    usage_limits,        \* UsageManager's limit, safe_limit, rotation_threshold
    \* ---- the state store (table bot_state)
    db,
    \* ---- GoogleProjectPoolManager
    pool_state,          \* [active_project_index |-> i]
    rotation_lock,       \* the task holding _rotation_lock, or 0
    lock_waiters,        \* the tasks waiting for it, first come first served
    translator,          \* TextTranslator: [client, parent, is_initialized]
    gcp_is_initialized,  \* GoogleProjectPoolManager.is_initialized
    \* ---- UsageManager
    usage_state,         \* _usage_state: [month, usage_by_project]
    active_project_id,   \* _active_project_id
    current_month,       \* _current_month
    usage_is_initialized, \* UsageManager.is_initialized
    \* ---- BotPoolManager and the process
    bot_pool_state,      \* [active_token_index |-> j]
    bot_is_initialized,
    process,             \* how the process stands: running, or how it exited
    \* ---- the coroutines
    pc,                  \* where each task is suspended
    op,                  \* the operation each task was started for
    io,                  \* the phase of the task's state store call
    req,                 \* that call: [kind, key]
    snap,                \* the value it writes or has read
    new_usage,           \* record_usage's local new_usage
    current_month_str,   \* _load_state's local current_month_str
    exc,                 \* the exception propagating in the task, or "none"
    tr,                  \* the task's translation request: its remote calls
    \* ---- history (not program state)
    pending,             \* what each task has yet to be started for
    call,                \* each task's current or last call: what it started from
    prev,                \* the call completed before it
    rotations,           \* index advances since the running call(s) started
    seq                  \* the run of record_usage calls since the last
                         \* reload, reconciliation or month change

config == <<project_ids, tokens, monitoring_clients, valid_creds, creds_match,
            usage_limits>>
readyVars == <<gcp_is_initialized, usage_is_initialized>>
gcpVars == <<pool_state, rotation_lock, lock_waiters, translator>>
ledgerVars == <<usage_state, active_project_id, current_month>>
botVars == <<bot_pool_state, bot_is_initialized, process>>
ioVars == <<io, req, snap>>
localVars == <<new_usage, current_month_str, exc>>
histVars == <<pending, call, prev, rotations, seq>>
vars == <<now, config, readyVars, tr, db, gcpVars, ledgerVars, botVars, pc,
          op, ioVars, localVars, histVars>>

Tasks == 1..MaxTasks

\* ------------------------------------------------ UsageManager.__init__
\* self.limit, self.safe_limit = int(self.limit * safety_factor) and
\* self.rotation_threshold as __init__ computes them from l and r;
\* max_usage is how far the model lets the pool's total grow.
LimitsOf(l, r, most) ==
    [limit |-> l,
     safe_limit |-> (l * safety_factor_pct) \div 100,
     rotation_threshold |-> r,
     max_usage |-> most]

\* The scaled-down configuration.
ScaledLimits == LimitsOf(limit, rotation_threshold, MaxUsage)

\* The configuration when none of the environment variables is set.
DefaultLimits ==
    LimitsOf(default_limit, default_rotation_threshold,
             default_rotation_threshold + 2 * MaxChars)

\* ------------------------------------------------------------ helpers
RECURSIVE SumOver(_, _)
SumOver(f, S) ==
    IF S = {} THEN 0
    ELSE LET x == CHOOSE y \in S : TRUE IN f[x] + SumOver(f, S \ {x})

\* dict.get(key, 0) on usage_by_project
UsageOf(state, p) ==
    IF p \in DOMAIN state.usage_by_project THEN state.usage_by_project[p] ELSE 0

\* d[key] = value on usage_by_project (the key is added when absent)
SetUsage(ubp, p, v) ==
    [q \in DOMAIN ubp \cup {p} |-> IF q = p THEN v ELSE ubp[q]]

\* "db.get_state(key) or {}" for a key never written
EmptyState == [month |-> NoMonth, usage_by_project |-> <<>>]

ProjectSet == {project_ids[k] : k \in 1..Len(project_ids)}

\* get_active_project_details()["id"] with the active index i
get_active_project_details(i) == project_ids[i + 1]

\* get_all_project_ids()
get_all_project_ids == ProjectSet

\* characters_used_current_project
characters_used_current_project ==
    IF active_project_id = NoProject THEN 0
    ELSE UsageOf(usage_state, active_project_id)

\* total_characters_used: the sum of usage_by_project's values
total_characters_used ==
    SumOver(usage_state.usage_by_project, DOMAIN usage_state.usage_by_project)

\* A limit check that already trips at the safe limit.
check_limit_reached(text_length) ==
    IF current_month # now THEN FALSE
    ELSE (total_characters_used + text_length) >= usage_limits.safe_limit

\* check_limit_exceeded(text_length)
check_limit_exceeded(text_length) ==
    IF current_month # now THEN FALSE
    ELSE (total_characters_used + text_length) > usage_limits.safe_limit

\* ------------------------------------------------- history bookkeeping
NoCall ==
    [op |-> "none", c |-> 0, now0 |-> 0, idx0 |-> 0, act0 |-> NoProject,
     old |-> 0, mem0 |-> EmptyState, db0 |-> EmptyState, cm0 |-> NoMonth,
     tok0 |-> 0, exceeded |-> FALSE, rolled |-> FALSE, site |-> "none",
     answers |-> <<>>]

NoPrev ==
    [op |-> "none", c |-> 0, now0 |-> 0, rolled |-> FALSE, crossed |-> FALSE]

\* No run of record_usage calls is under way.
\* No translation request: n characters to translate into langs
\* languages, left of them still to do, issued remote calls of which ok
\* returned a result; served is the project whose client took the last
\* remote call, rotating the projects a record_usage call was rotating
\* away from when one was issued, charged the project record_usage added
\* the request's characters to, and recorded their number.
NoRequest ==
    [n |-> 0, langs |-> 0, left |-> 0, issued |-> 0, ok |-> 0,
     served |-> NoProject, rotating |-> {}, charged |-> NoProject,
     recorded |-> 0]

NoSeq == [valid |-> FALSE, first |-> NoProject, base |-> <<>>, recorded |-> <<>>]

\* record_usage(c) for the active project a starts: it opens a run, from
\* the ledger as it stands, or goes on with the one under way.
SeqRecord(a, c) ==
    LET s0 == IF seq.valid THEN seq
              ELSE [valid |-> TRUE, first |-> a,
                    base |-> [p \in ProjectSet |-> UsageOf(usage_state, p)],
                    recorded |-> [p \in ProjectSet |-> 0]]
    IN [s0 EXCEPT !.recorded[a] = @ + c]

Crossed(cl) ==
    /\ cl.old < usage_limits.rotation_threshold
    /\ cl.old + cl.c >= usage_limits.rotation_threshold

\* A call of operation o, with argument c, starts in the current state.
\* What the call started from is kept where a property of o reads it.
StartCall(t, o, c) ==
    /\ call' = [call EXCEPT ![t] =
            [op |-> o, c |-> c, now0 |-> now,
             idx0 |-> pool_state.active_project_index,
             act0 |-> active_project_id,
             old |-> IF o = "record_usage"
                     THEN characters_used_current_project ELSE 0,
             mem0 |-> IF o \in {"record_usage", "_load_state",
                                 "sync_with_google", "reset_usage"}
                      THEN usage_state ELSE EmptyState,
             db0 |-> IF o = "_load_state"
                     THEN db["usage_tracker"] ELSE EmptyState,
             cm0 |-> IF o = "_load_state" THEN current_month ELSE NoMonth,
             tok0 |-> bot_pool_state.active_token_index,
             exceeded |-> o \in {"get_active_token", "run_bot"}
                          /\ check_limit_exceeded(0),
             rolled |-> FALSE, site |-> "none", answers |-> <<>>]]
    /\ prev' = [prev EXCEPT ![t] =
            [op |-> call[t].op, c |-> call[t].c, now0 |-> call[t].now0,
             rolled |-> call[t].rolled,
             crossed |-> call[t].op = "record_usage" /\ Crossed(call[t])]]

CanCall(t, o) == pc[t] = "idle" /\ pending[t] \in {o, "any"}

\* The task's operation returns to the event loop.
Finish(t) ==
    /\ pc' = [pc EXCEPT ![t] = "idle"]
    /\ op' = [op EXCEPT ![t] = "none"]
    /\ pending' = [pending EXCEPT ![t] = IF @ = "any" THEN "any" ELSE "done"]

\* The task has completed its last call.
Completed(t, o) == pc[t] = "idle" /\ call[t].op = o

\* ---------------------------------------------------- the state store
\* The in-memory dict a set_state call was handed (by reference).
InMemory(key) ==
    CASE key = "usage_tracker" -> usage_state
      [] key = "gcp_pool_state" -> pool_state
      [] key = "bot_pool_state" -> bot_pool_state

\* get_state / set_state is called: it runs up to pool.acquire().
DbCall(t, kind, key) ==
    /\ io' = [io EXCEPT ![t] = "acquire"]
    /\ req' = [req EXCEPT ![t] = [kind |-> kind, key |-> key]]
    /\ UNCHANGED snap

\* The call's result has been consumed.
DbReturn(t) ==
    /\ io' = [io EXCEPT ![t] = "none"]
    /\ req' = [req EXCEPT ![t] = [kind |-> "none", key |-> "none"]]
    /\ snap' = [snap EXCEPT ![t] = EmptyState]

\* A connection is acquired; set_state serialises its value (json.dumps)
\* and sends the statement.
db_acquire(t) ==
    /\ io[t] = "acquire"
    /\ io' = [io EXCEPT ![t] = "execute"]
    /\ snap' = [snap EXCEPT ![t] =
            IF req[t].kind = "set" THEN InMemory(req[t].key) ELSE @]
    /\ UNCHANGED <<now, config, readyVars, tr, db, gcpVars, ledgerVars, botVars, pc, op, req,
                   localVars, histVars>>

\* The statement executes in the store: the row is written, or read.
db_execute(t) ==
    /\ io[t] = "execute"
    /\ io' = [io EXCEPT ![t] = "done"]
    /\ IF req[t].kind = "set"
       THEN /\ db' = [db EXCEPT ![req[t].key] = snap[t]]
            /\ UNCHANGED snap
       ELSE /\ snap' = [snap EXCEPT ![t] = db[req[t].key]]
            /\ UNCHANGED db
    /\ UNCHANGED <<now, config, readyVars, tr, gcpVars, ledgerVars, botVars, pc, op, req,
                   localVars, histVars>>

\* A task that goes on without waiting for the store call it awaits.
ResumedEarly(t, p) == pc[t] = p

\* The awaited state store call of the task at position p has returned.
Resumed(t, p) == pc[t] = p /\ io[t] = "done"

\* The rotation count a newly started call counts from.
StartRot == IF \A u \in Tasks : pc[u] = "idle" THEN 0 ELSE rotations

\* ------------------------------------------ GoogleProjectPoolManager
\* A rotation that moves to the index after the next one.
NextIndexSkipping(current_index) == (current_index + 2) % Len(project_ids)

\* A rotation that does not wrap around at the end of the pool.
NextIndexUnwrapped(current_index) == current_index + 1

\* next_index = (current_index + 1) % len(self.project_ids)
NextIndex(current_index) == (current_index + 1) % Len(project_ids)

\* TextTranslator() as constructed: disabled.
NoTranslator ==
    [client |-> NoProject, parent |-> NoProject, is_initialized |-> FALSE]

\* A reconfiguration that leaves the flag as it was when the credential
\* source does not load.
ClientAfterKeeping(before, id) ==
    IF id \in valid_creds
    THEN [client |-> id, parent |-> id, is_initialized |-> TRUE]
    ELSE before

\* TextTranslator.initialize_client(details): no await inside.  A
\* credential source that does not load leaves client and parent as they
\* were and clears is_initialized.
ClientAfter(before, id) ==
    IF id \in valid_creds
    THEN [client |-> id, parent |-> id, is_initialized |-> TRUE]
    ELSE [before EXCEPT !.is_initialized = FALSE]

initialize_client(id) == ClientAfter(translator, id)

\* "async with self._rotation_lock" ends: the first waiter gets the lock.
ReleaseLock ==
    /\ rotation_lock' = IF lock_waiters = <<>> THEN 0 ELSE Head(lock_waiters)
    /\ lock_waiters' = IF lock_waiters = <<>> THEN <<>> ELSE Tail(lock_waiters)

\* A caller that drops the id rotate_active_project has returned.
ActiveAfterRotationKept(o, new_id) == active_project_id

\* "new_id = await self.gcp_pool_manager.rotate_active_project()" and
\* "self._active_project_id = new_id" in record_usage; any other caller
\* leaves the cache alone.
ActiveAfterRotation(o, new_id) ==
    IF o = "record_usage" THEN new_id ELSE active_project_id

\* rotate_active_project returns id to its caller, which runs on to its end:
\* record_usage stores the id as _active_project_id.
RotateReturn(t, id) ==
    /\ ReleaseLock
    /\ active_project_id' = ActiveAfterRotation(op[t], id)
    /\ DbReturn(t)
    /\ Finish(t)

\* The body of rotate_active_project, the lock held, up to the suspension
\* in db.set_state; r0 is the rotation count so far.
RotateLocked(t, r0) ==
    LET current_index == pool_state.active_project_index IN
    IF current_index # pool_state.active_project_index
    THEN \* "Another process already handled rotation. Skipping."
         /\ RotateReturn(t, get_active_project_details(
                                pool_state.active_project_index))
         /\ rotations' = r0
         /\ UNCHANGED <<pool_state, translator>>
    ELSE LET next_index == NextIndex(current_index) IN
         /\ pool_state' = [pool_state EXCEPT !.active_project_index = next_index]
         /\ rotations' = r0 + 1
         /\ rotation_lock' = t
         /\ pc' = [pc EXCEPT ![t] = "rot_save"]
         /\ DbCall(t, "set", "gcp_pool_state")
         /\ UNCHANGED <<lock_waiters, translator, active_project_id, op,
                        pending>>

\* A lock that lets every caller in.
LockIgnored == TRUE

\* self._rotation_lock is free and nobody waits for it.
LockFree == rotation_lock = 0 /\ lock_waiters = <<>>

\* rotate_active_project is entered: the lock is taken when it is free and
\* nobody waits for it (asyncio.Lock.acquire does not suspend then),
\* otherwise the task queues for it.
RotateBegin(t, r0) ==
    IF LockFree
    THEN RotateLocked(t, r0)
    ELSE /\ lock_waiters' = Append(lock_waiters, t)
         /\ pc' = [pc EXCEPT ![t] = "rot_wait"]
         /\ rotations' = r0
         /\ DbReturn(t)
         /\ UNCHANGED <<pool_state, rotation_lock, translator,
                        active_project_id, op, pending>>

\* A task created for a rotate_active_project() call (asyncio.gather)
\* runs it from its first line.
RotateEnter(t) ==
    /\ pc[t] = "rot_start"
    /\ RotateBegin(t, rotations)
    /\ UNCHANGED <<now, config, readyVars, tr, db, usage_state, current_month, botVars,
                   localVars, call, prev, seq>>

\* A waiting task is given the lock and runs the body.
RotateWake(t) ==
    /\ pc[t] = "rot_wait"
    /\ rotation_lock = t
    /\ RotateLocked(t, rotations)
    /\ UNCHANGED <<now, config, readyVars, tr, db, usage_state, current_month, botVars,
                   localVars, call, prev, seq>>

\* set_state has returned: the translator is re-initialised for the new
\* project, the lock released and the new id returned.
RotateAfterSave(t) ==
    /\ Resumed(t, "rot_save")
    /\ LET new_project_details ==
               get_active_project_details(pool_state.active_project_index) IN
       /\ translator' = initialize_client(new_project_details)
       /\ RotateReturn(t, new_project_details)
    /\ UNCHANGED <<now, config, readyVars, tr, db, pool_state, usage_state, current_month,
                   botVars, localVars, call, prev, rotations, seq>>

\* ------------------------------------------------------- UsageManager
\* An increment that takes the characters off the counter.
NewUsageSubtracting(current_usage, character_count) ==
    current_usage - character_count

\* An increment that forgets what the project had used before.
NewUsageOverwriting(current_usage, character_count) == character_count

\* new_usage = current_usage + character_count
NewUsage(current_usage, character_count) == current_usage + character_count

\* A trigger that fires after every record.
ThresholdIgnored(usage) == TRUE

\* A trigger that waits until the threshold is exceeded.
ThresholdExceeded(usage) == usage > usage_limits.rotation_threshold

\* if new_usage >= self.rotation_threshold
ThresholdReached(usage) == usage >= usage_limits.rotation_threshold

\* The body of record_usage(character_count), up to the suspension in
\* _save_state.
RecordBody(t, character_count) ==
    IF active_project_id = NoProject
    THEN \* "Cannot record usage: No active project ID is set."
         /\ Finish(t)
         /\ UNCHANGED <<usage_state, new_usage, ioVars, seq>>
    ELSE LET current_usage == UsageOf(usage_state, active_project_id) IN
         /\ new_usage' = [new_usage EXCEPT ![t] =
                             NewUsage(current_usage, character_count)]
         /\ usage_state' = [usage_state EXCEPT !.usage_by_project =
                 SetUsage(@, active_project_id,
                          NewUsage(current_usage, character_count))]
         /\ pc' = [pc EXCEPT ![t] = "rec_save"]
         /\ op' = [op EXCEPT ![t] = "record_usage"]
         /\ DbCall(t, "set", "usage_tracker")
         /\ seq' = SeqRecord(active_project_id, character_count)
         /\ UNCHANGED pending

\* record_usage(character_count) called on the usage manager.
RecordUsage(t, character_count) ==
    /\ CanCall(t, "record_usage")
    /\ total_characters_used + character_count <= usage_limits.max_usage
    /\ StartCall(t, "record_usage", character_count)
    /\ rotations' = StartRot
    /\ RecordBody(t, character_count)
    /\ UNCHANGED <<now, config, readyVars, tr, db, gcpVars, active_project_id,
                   current_month, botVars, current_month_str, exc>>

\* _save_state has returned: the rotation trigger.
RecordAfterSave(t) ==
    /\ Resumed(t, "rec_save")
    /\ new_usage' = [new_usage EXCEPT ![t] = 0]
    /\ IF ThresholdReached(new_usage[t])
       THEN RotateBegin(t, rotations)
       ELSE /\ DbReturn(t)
            /\ Finish(t)
            /\ UNCHANGED <<gcpVars, active_project_id, rotations>>
    /\ UNCHANGED <<now, config, readyVars, tr, db, usage_state, current_month, botVars,
                   current_month_str, exc, call, prev, seq>>

\* What the monitoring API answers for one project: a summed count,
\* exceptions.NotFound, or another exception.
Answers ==
    [kind : {"count"}, n : 0..MaxReport]
        \cup {[kind |-> "NotFound", n |-> 0], [kind |-> "Error", n |-> 0]}

\* A reconciliation that only ever raises a counter.
DriftedUpwards(st, ans, p) ==
    ans[p].kind = "count" /\ ans[p].n > UsageOf(st, p)

\* A loop body that clears the counter on any failed query.
DriftedOnError(st, ans, p) ==
    CASE ans[p].kind = "count" -> ans[p].n # UsageOf(st, p)
      [] OTHER -> UsageOf(st, p) # 0

\* Whether sync_with_google's loop body overwrites project p's counter.
Drifted(st, ans, p) ==
    CASE ans[p].kind = "count" -> ans[p].n # UsageOf(st, p)
      [] ans[p].kind = "NotFound" -> UsageOf(st, p) # 0
      [] OTHER -> FALSE

\* The ledger after the loop over monitoring_clients.
SyncApply(st, ans) ==
    LET hit == {p \in monitoring_clients : Drifted(st, ans, p)} IN
    [st EXCEPT !.usage_by_project =
        [p \in DOMAIN st.usage_by_project \cup hit |->
            IF p \in hit
            THEN (IF ans[p].kind = "count" THEN ans[p].n ELSE 0)
            ELSE st.usage_by_project[p]]]

\* _load_state has returned with the ledger st: a bare _load_state call is
\* over; sync_with_google runs its loop (the monitoring calls are blocking
\* calls, not awaits) up to the suspension in _save_state.
AfterLoad(t, st, cl) ==
    IF op[t] = "sync_with_google"
    THEN \E ans \in [monitoring_clients -> Answers] :
            /\ usage_state' = SyncApply(st, ans)
            /\ call' = [call EXCEPT ![t] = [cl EXCEPT !.answers = ans]]
            /\ IF \E p \in monitoring_clients : Drifted(st, ans, p)
               THEN /\ pc' = [pc EXCEPT ![t] = "sync_save"]
                    /\ DbCall(t, "set", "usage_tracker")
                    /\ UNCHANGED <<op, pending>>
               ELSE /\ DbReturn(t)
                    /\ Finish(t)
    ELSE /\ usage_state' = st
         /\ call' = [call EXCEPT ![t] = cl]
         /\ DbReturn(t)
         /\ Finish(t)

\* _load_state(), up to the suspension in db.get_state.
LoadCall(t) ==
    /\ current_month_str' = [current_month_str EXCEPT ![t] = now]
    /\ pc' = [pc EXCEPT ![t] = "load_get"]
    /\ DbCall(t, "get", "usage_tracker")
    /\ rotations' = StartRot
    /\ seq' = NoSeq

\* _load_state() called on an initialized usage manager.
LoadBegin(t) ==
    /\ LoadCall(t)
    /\ UNCHANGED <<now, config, readyVars, tr, db, gcpVars, ledgerVars, botVars, new_usage,
                   exc, pending>>

\* _load_state() called by itself (the /usage command).
LoadState(t) ==
    /\ CanCall(t, "_load_state")
    /\ StartCall(t, "_load_state", 0)
    /\ op' = [op EXCEPT ![t] = "_load_state"]
    /\ LoadBegin(t)

\* sync_with_google(): it starts with _load_state().
SyncWithGoogle(t) ==
    /\ CanCall(t, "sync_with_google")
    /\ StartCall(t, "sync_with_google", 0)
    /\ op' = [op EXCEPT ![t] = "sync_with_google"]
    /\ LoadBegin(t)

\* A reset that stamps the month and keeps the counters.
reset_usage_keeping ==
    [month |-> now,
     usage_by_project |->
        [p \in get_all_project_ids |-> UsageOf(usage_state, p)]]

\* reset_usage(), up to the suspension in _save_state.
reset_usage ==
    [month |-> now, usage_by_project |-> [p \in get_all_project_ids |-> 0]]

\* get_state has returned: the month rollover check.
LoadAfterGet(t) ==
    /\ Resumed(t, "load_get")
    /\ LET state == snap[t]
           month == IF state.month = NoMonth THEN current_month_str[t]
                    ELSE state.month
       IN IF month # current_month_str[t]
          THEN \* "New month detected": reset_usage()
               /\ current_month' = now
               /\ usage_state' = reset_usage
               /\ call' = [call EXCEPT ![t].rolled = TRUE]
               /\ pc' = [pc EXCEPT ![t] = "reset_save"]
               /\ DbCall(t, "set", "usage_tracker")
               /\ UNCHANGED <<op, pending>>
          ELSE /\ current_month' = month
               /\ AfterLoad(t, state, call[t])
    /\ current_month_str' = [current_month_str EXCEPT ![t] = NoMonth]
    /\ UNCHANGED <<now, config, readyVars, tr, db, gcpVars, active_project_id, botVars,
                   new_usage, exc, prev, rotations, seq>>

\* reset_usage's _save_state has returned, and with it _load_state.
ResetAfterSave(t) ==
    /\ Resumed(t, "reset_save")
    /\ AfterLoad(t, usage_state, call[t])
    /\ UNCHANGED <<now, config, readyVars, tr, db, gcpVars, active_project_id, current_month,
                   botVars, localVars, prev, rotations, seq>>

\* sync_with_google's _save_state has returned.
SyncAfterSave(t) ==
    /\ Resumed(t, "sync_save")
    /\ DbReturn(t)
    /\ Finish(t)
    /\ UNCHANGED <<now, config, readyVars, tr, db, gcpVars, ledgerVars, botVars, localVars,
                   call, prev, rotations, seq>>

\* The wall-clock month changes.
Tick ==
    /\ now < MaxMonth
    /\ now' = now + 1
    /\ seq' = NoSeq
    /\ UNCHANGED <<config, readyVars, tr, db, gcpVars, ledgerVars, botVars, pc, op, ioVars,
                   localVars, pending, call, prev, rotations>>

\* ----------------------------------------- BotPoolManager and the process
\* The attributes a UsageManager instance has (set in __init__).
UsageManagerAttributes ==
    {"db", "gcp_pool_manager", "limit", "safe_limit", "rotation_threshold",
     "monitoring_clients", "is_initialized", "_usage_state",
     "_active_project_id", "_current_month"}

\* The names BotPoolManager.initialize can read: its parameter, and the
\* module's globals.
InitializeNames ==
    {"self", "os", "logging", "List", "Dict", "Any", "DatabaseManager",
     "UsageManager", "log", "POOL_STATE_KEY", "ShutdownForBotRotation",
     "BotPoolManager"}

\* What "raise ShutdownForBotRotation(f'... {current_index} to
\* {next_index}.')" at the end of initialize's first-run branch raises.
InitializeRaises ==
    IF {"current_index", "next_index"} \subseteq InitializeNames
    THEN "ShutdownForBotRotation" ELSE "NameError"

\* What the end of _rotate_to_next_bot raises: it reads
\* self.usage_manager._local_usage before it raises the signal.
RotateToNextBotRaises ==
    IF "_local_usage" \in UsageManagerAttributes
    THEN "ShutdownForBotRotation" ELSE "AttributeError"

\* run_bot's "except ShutdownForBotRotation as e: ... raise e"; any other
\* exception passes through.
run_bot_except(e) == IF e = "ShutdownForBotRotation" THEN e ELSE e

\* app.py's handlers around asyncio.run(run_bot()): how the process ends.
app_main(e) ==
    CASE e = "ShutdownForBotRotation" -> "exit_rotation"
      [] e = "KeyboardInterrupt" -> "exit_user"
      [] OTHER -> "exit_error"

\* Operation o of the task ends by raising e.  In run_bot the exception
\* unwinds to the entry point and the process ends.
RaiseIn(t, o, e) ==
    /\ exc' = [exc EXCEPT ![t] = e]
    /\ process' = IF o = "run_bot" THEN app_main(run_bot_except(e))
                  ELSE process
    /\ DbReturn(t)
    /\ Finish(t)

Raise(t, e) == RaiseIn(t, op[t], e)

\* get_active_token() within operation o, up to the suspension in
\* _rotate_to_next_bot's db.set_state, or to its end; initialized and
\* state are is_initialized and pool_state at the call.
GetTokenBody(t, o, initialized, state) ==
    IF ~initialized
    THEN /\ RaiseIn(t, o, "RuntimeError")
         /\ bot_pool_state' = state
    ELSE IF check_limit_exceeded(0)
    THEN \* _rotate_to_next_bot()
         LET current_index == state.active_token_index
             next_index == (current_index + 1) % Len(tokens)
         IN /\ bot_pool_state' =
                    [state EXCEPT !.active_token_index = next_index]
            /\ pc' = [pc EXCEPT ![t] = "bot_rot_save"]
            /\ op' = [op EXCEPT ![t] = o]
            /\ DbCall(t, "set", "bot_pool_state")
            /\ exc' = [exc EXCEPT ![t] = "none"]
            /\ UNCHANGED <<process, pending>>
    ELSE \* the active token is returned; run_bot goes on to bot.start(token)
         /\ process' = IF o = "run_bot" THEN "running" ELSE process
         /\ exc' = [exc EXCEPT ![t] = "none"]
         /\ DbReturn(t)
         /\ Finish(t)
         /\ bot_pool_state' = state

\* get_active_token() called on the pool manager.
GetActiveToken(t) ==
    /\ CanCall(t, "get_active_token")
    /\ StartCall(t, "get_active_token", 0)
    /\ GetTokenBody(t, "get_active_token", bot_is_initialized, bot_pool_state)
    /\ rotations' = StartRot
    /\ UNCHANGED <<now, config, readyVars, tr, db, gcpVars, ledgerVars, bot_is_initialized,
                   new_usage, current_month_str, seq>>

\* _rotate_to_next_bot's set_state has returned.
BotRotateAfterSave(t) ==
    /\ Resumed(t, "bot_rot_save")
    /\ call' = [call EXCEPT ![t].site = "_rotate_to_next_bot"]
    /\ Raise(t, RotateToNextBotRaises)
    /\ UNCHANGED <<now, config, readyVars, tr, db, gcpVars, ledgerVars, bot_pool_state,
                   bot_is_initialized, new_usage, current_month_str, prev,
                   rotations, seq>>

\* ------------------------------------------------------ initial states
Pools(max) == {[k \in 1..n |-> k] : n \in 1..max}

\* No coroutine has started.
InitTasks ==
    /\ pc = [t \in Tasks |-> "idle"]
    /\ op = [t \in Tasks |-> "none"]
    /\ io = [t \in Tasks |-> "none"]
    /\ req = [t \in Tasks |-> [kind |-> "none", key |-> "none"]]
    /\ snap = [t \in Tasks |-> EmptyState]
    /\ new_usage = [t \in Tasks |-> 0]
    /\ current_month_str = [t \in Tasks |-> NoMonth]
    /\ exc = [t \in Tasks |-> "none"]
    /\ tr = [t \in Tasks |-> NoRequest]
    /\ call = [t \in Tasks |-> NoCall]
    /\ prev = [t \in Tasks |-> NoPrev]
    /\ rotations = 0
    /\ seq = NoSeq

\* The services as setup_hook leaves them (initialize of the pool managers
\* and of the usage manager), over a state store that holds the active
\* indices i and j and one of the given ledgers; creds are the sets of
\* projects whose credential source may load; limits is what
\* UsageManager.__init__ has read from the environment.
ServicesUnder(limits, ledgers, creds) ==
    /\ now = 1
    /\ project_ids \in Pools(MaxProjects)
    /\ tokens \in Pools(MaxTokens)
    /\ creds_match = TRUE
    /\ usage_limits = limits
    /\ valid_creds \in creds
    /\ gcp_is_initialized = TRUE
    /\ usage_is_initialized = TRUE
    /\ \E i \in 0..(Len(project_ids) - 1), j \in 0..(Len(tokens) - 1),
          ledger \in ledgers :
          /\ db = [gcp_pool_state |-> [active_project_index |-> i],
                   usage_tracker |-> ledger,
                   bot_pool_state |-> [active_token_index |-> j]]
          /\ pool_state = [active_project_index |-> i]
          /\ translator = ClientAfter(NoTranslator,
                                      get_active_project_details(i))
          /\ usage_state = ledger
          /\ active_project_id = get_active_project_details(i)
          /\ bot_pool_state = [active_token_index |-> j]
    /\ current_month = now
    /\ rotation_lock = 0
    /\ lock_waiters = <<>>
    /\ bot_is_initialized = TRUE
    /\ process = "running"

\* The services under the scaled-down configuration.
ServicesWith(ledgers, creds) == ServicesUnder(ScaledLimits, ledgers, creds)

\* The services with every credential source loading.
ServicesOver(ledgers) == ServicesWith(ledgers, {ProjectSet})

\* The ledgers of this month with every counter in the given range.
LedgersWithin(counts) ==
    {[month |-> now, usage_by_project |-> u] : u \in [ProjectSet -> counts]}

\* The services over no ledger or this month's fresh ledger.
InitServices == ServicesOver({EmptyState} \cup LedgersWithin({0}))

\* One coroutine at a time: task 1 runs one operation after the other.
InitSequential ==
    /\ InitTasks
    /\ pending = [t \in Tasks |-> IF t = 1 THEN "any" ELSE "none"]

\* The state store calls and the rotation they may end in.
StoreStep(t) ==
    \/ db_acquire(t)
    \/ db_execute(t)
    \/ RecordAfterSave(t)
    \/ RotateAfterSave(t)

\* The usage ledger, one call after the other.
Init ==
    /\ InitServices
    /\ Len(tokens) = 1
    /\ monitoring_clients \in SUBSET ProjectSet
    /\ InitSequential

Next ==
    \/ Tick
    \/ \E t \in Tasks :
          \/ StoreStep(t)
          \/ \E c \in 1..MaxChars : RecordUsage(t, c)
          \/ LoadState(t)
          \/ SyncWithGoogle(t)
          \/ LoadAfterGet(t)
          \/ ResetAfterSave(t)
          \/ SyncAfterSave(t)

Spec == Init /\ [][Next]_vars

\* ------------------------------------------------- the usage ledger
\* C3: a record_usage call that takes the active project's counter from
\* below rotation_threshold to it or above rotates the pool exactly once,
\* to the next project; a call whose counter stays below the threshold,
\* such as the same increment repeated right after on the new project,
\* does not rotate.
C3_ThresholdRotatesOnce ==
    \A t \in Tasks :
        (Completed(t, "record_usage") /\ call[t].act0 # NoProject) =>
            LET cl == call[t] IN
            /\ Crossed(cl) =>
                  /\ rotations = 1
                  /\ pool_state.active_project_index =
                        (cl.idx0 + 1) % Len(project_ids)
            /\ (cl.old + cl.c < rotation_threshold) =>
                  /\ rotations = 0
                  /\ pool_state.active_project_index = cl.idx0

\* A crossing call has rotated, and the same increment recorded right
\* after it has left the new project below the threshold.
C3_SecondCallDone ==
    \E t \in Tasks :
        /\ Completed(t, "record_usage")
        /\ prev[t].op = "record_usage"
        /\ prev[t].crossed
        /\ prev[t].c = call[t].c
        /\ call[t].old + call[t].c < rotation_threshold
        /\ Len(project_ids) > 1
        /\ rotations = 0

\* C4: over a run of record_usage calls with no reload, reconciliation
\* or month change in between, every project's counter is its value
\* before the run plus the amounts recorded on it, in memory and, once
\* the last call has returned, in the state store.
C4_CounterIsSumOfRecords ==
    seq.valid =>
        \A p \in ProjectSet :
            /\ UsageOf(usage_state, p) = seq.base[p] + seq.recorded[p]
            /\ (\A t \in Tasks : pc[t] = "idle") =>
                  UsageOf(db.usage_tracker, p) =
                      seq.base[p] + seq.recorded[p]

\* Two calls in a row on a project that stays active.
C4_TwoRecordsDone ==
    \E t \in Tasks :
        /\ Completed(t, "record_usage")
        /\ prev[t].op = "record_usage"
        /\ seq.valid
        /\ Len(project_ids) > 1
        /\ call[t].act0 = seq.first
        /\ active_project_id = seq.first
        /\ seq.recorded[seq.first] = prev[t].c + call[t].c
        /\ \A p \in ProjectSet \ {seq.first} : seq.recorded[p] = 0

\* What a completed record_usage call on a pool of two has done: the
\* amount went to the project that was active, whose counter is kept in
\* memory and in the state store, the other counter is untouched, the
\* pool stays below the threshold and moves to the other project at it.
RecordOnPair(cl) ==
    LET A == cl.act0
        B == CHOOSE p \in ProjectSet : p # cl.act0
        new == cl.old + cl.c
    IN /\ UsageOf(usage_state, A) = new
       /\ UsageOf(db.usage_tracker, A) = new
       /\ UsageOf(usage_state, B) = UsageOf(cl.mem0, B)
       /\ (new < rotation_threshold) =>
             /\ active_project_id = A
             /\ get_active_project_details(
                    pool_state.active_project_index) = A
       /\ (new >= rotation_threshold) =>
             /\ active_project_id = B
             /\ get_active_project_details(
                    pool_state.active_project_index) = B
       /\ total_characters_used =
             UsageOf(usage_state, A) + UsageOf(usage_state, B)

\* C5: in a pool of two projects, A active, a record that keeps A below
\* rotation_threshold leaves A active; one that brings A to the threshold
\* makes B active and A's counter keeps its full value; a record made
\* while B is the active project is added to B's counter only; the total
\* is the sum of the two counters.
C5_PairRotation ==
    \A t \in Tasks :
        (/\ Len(project_ids) = 2
         /\ Completed(t, "record_usage")
         /\ call[t].act0 # NoProject) => RecordOnPair(call[t])

\* A has reached the threshold, B is active, and a later record has been
\* added to B.
C5_RecordedOnSecond ==
    \E t \in Tasks :
        /\ Len(project_ids) = 2
        /\ Completed(t, "record_usage")
        /\ seq.valid
        /\ call[t].act0 # seq.first
        /\ seq.base[seq.first] < rotation_threshold
        /\ UsageOf(usage_state, seq.first) >= rotation_threshold
        /\ UsageOf(usage_state, call[t].act0) =
              UsageOf(call[t].mem0, call[t].act0) + call[t].c

\* C5 as the specification words it: once A has reached the threshold
\* within a run, every later record is added to B's counter only.
C5_EveryLaterRecordOnSecond ==
    \A t \in Tasks :
        (/\ Len(project_ids) = 2
         /\ Completed(t, "record_usage")
         /\ call[t].act0 # NoProject
         /\ seq.valid) =>
            LET cl == call[t]
                A == seq.first
                B == CHOOSE p \in ProjectSet : p # seq.first
            IN /\ RecordOnPair(cl)
               /\ (/\ seq.base[A] < rotation_threshold
                   /\ UsageOf(cl.mem0, A) >= rotation_threshold) =>
                     /\ UsageOf(usage_state, A) = UsageOf(cl.mem0, A)
                     /\ UsageOf(usage_state, B) =
                           UsageOf(cl.mem0, B) + cl.c

\* C6: a _load_state call that finds a ledger stored for another month
\* leaves every counter at zero and the current month in memory and in
\* the state store; a second call right after it changes nothing.
C6_RolloverResetsOnce ==
    \A t \in Tasks :
        Completed(t, "_load_state") =>
            LET cl == call[t] IN
            /\ (cl.db0.month \notin {NoMonth, cl.now0} /\ now = cl.now0) =>
                  /\ usage_state =
                        [month |-> now,
                         usage_by_project |-> [p \in ProjectSet |-> 0]]
                  /\ current_month = now
                  /\ db.usage_tracker = usage_state
            /\ (/\ prev[t].op = "_load_state"
                /\ prev[t].rolled
                /\ prev[t].now0 = now) =>
                  /\ ~cl.rolled
                  /\ usage_state = cl.mem0
                  /\ db.usage_tracker = cl.db0
                  /\ current_month = cl.cm0

\* The first call has reset a ledger that held usage, and the second has
\* returned in the same month.
C6_SecondLoadDone ==
    \E t \in Tasks :
        /\ Completed(t, "_load_state")
        /\ prev[t].op = "_load_state"
        /\ prev[t].rolled
        /\ prev[t].now0 = now
        /\ usage_state.month = now

\* C7: when sync_with_google has returned, every project with a
\* monitoring client whose query answered a count holds that count, and
\* every one whose query answered NotFound holds zero, in memory and in
\* the state store.
C7_SyncOverwrites ==
    \A t \in Tasks :
        Completed(t, "sync_with_google") =>
            \A p \in monitoring_clients :
                LET a == call[t].answers[p] IN
                /\ (a.kind = "count") =>
                      /\ UsageOf(usage_state, p) = a.n
                      /\ UsageOf(db.usage_tracker, p) = a.n
                /\ (a.kind = "NotFound") =>
                      /\ UsageOf(usage_state, p) = 0
                      /\ UsageOf(db.usage_tracker, p) = 0

\* A reconciliation has lowered one counter to the provider's count and
\* cleared another on NotFound.
C7_SyncLowered ==
    \E t \in Tasks :
        /\ Completed(t, "sync_with_google")
        /\ \E p, q \in monitoring_clients :
              /\ call[t].answers[p].kind = "count"
              /\ call[t].answers[p].n < UsageOf(call[t].mem0, p)
              /\ call[t].answers[q].kind = "NotFound"
              /\ UsageOf(call[t].mem0, q) > 0
              /\ UsageOf(usage_state, p) = call[t].answers[p].n
              /\ UsageOf(usage_state, q) = 0

\* The identity pool over the usage ledger, one call after the other.
IdentityInit ==
    /\ InitServices
    /\ monitoring_clients = {}
    /\ InitSequential

IdentityNext ==
    \/ Tick
    \/ \E t \in Tasks :
          \/ StoreStep(t)
          \/ \E c \in 1..MaxChars : RecordUsage(t, c)
          \/ LoadState(t)
          \/ LoadAfterGet(t)
          \/ ResetAfterSave(t)
          \/ GetActiveToken(t)
          \/ BotRotateAfterSave(t)

IdentitySpec == IdentityInit /\ [][IdentityNext]_vars

\* ------------------------------------------------ the identity pool
\* C8: check_limit_exceeded(n) is true exactly when the month the ledger
\* was loaded for is the current month and the sum of all projects'
\* counters plus n is above safe_limit; with another month it is false
\* for every n.
C8_LimitCheck ==
    \A n \in 0..MaxChars :
        /\ check_limit_exceeded(n) <=>
              /\ current_month = now
              /\ SumOver([p \in ProjectSet |-> UsageOf(usage_state, p)],
                         ProjectSet) + n > safe_limit
        /\ (current_month # now) => ~check_limit_exceeded(n)

\* The check has answered true to get_active_token, with the total one
\* character above safe_limit.
C8_LimitChecked ==
    /\ \E t \in Tasks :
          Completed(t, "get_active_token") /\ call[t].exceeded
    /\ current_month = now
    /\ total_characters_used = safe_limit + 1

\* C9: a get_active_token call on an initialized pool that finds
\* check_limit_exceeded(0) true stores the next token index, wrapping at
\* the end of the pool, and ends by raising ShutdownForBotRotation.
C9_RotationRaisesShutdown ==
    \A t \in Tasks :
        (Completed(t, "get_active_token") /\ call[t].exceeded) =>
            /\ db.bot_pool_state.active_token_index =
                  (call[t].tok0 + 1) % Len(tokens)
            /\ exc[t] = "ShutdownForBotRotation"

\* ------------------------------------------------ concurrent callers
\* Tasks launched together (asyncio.gather, or translation requests in
\* flight): each runs one rotate_active_project() or one record_usage(),
\* or nothing, over a ledger still below the rotation threshold.
RaceInit ==
    /\ ServicesOver(LedgersWithin(0..(rotation_threshold - 1)))
    /\ Len(tokens) = 1
    /\ monitoring_clients = {}
    /\ \E launched \in [Tasks -> {"rotate_active_project", "record_usage",
                                  "none"}] :
          /\ pc = [t \in Tasks |->
                      IF launched[t] = "rotate_active_project"
                      THEN "rot_start" ELSE "idle"]
          /\ op = [t \in Tasks |->
                      IF launched[t] = "rotate_active_project"
                      THEN launched[t] ELSE "none"]
          /\ pending = [t \in Tasks |->
                      IF launched[t] = "record_usage"
                      THEN launched[t] ELSE "none"]
          /\ call = [t \in Tasks |->
                      IF launched[t] = "rotate_active_project"
                      THEN [NoCall EXCEPT
                               !.op = launched[t],
                               !.idx0 = pool_state.active_project_index,
                               !.act0 = active_project_id]
                      ELSE NoCall]
    /\ io = [t \in Tasks |-> "none"]
    /\ req = [t \in Tasks |-> [kind |-> "none", key |-> "none"]]
    /\ snap = [t \in Tasks |-> EmptyState]
    /\ new_usage = [t \in Tasks |-> 0]
    /\ current_month_str = [t \in Tasks |-> NoMonth]
    /\ exc = [t \in Tasks |-> "none"]
    /\ tr = [t \in Tasks |-> NoRequest]
    /\ prev = [t \in Tasks |-> NoPrev]
    /\ rotations = 0
    /\ seq = NoSeq

RaceNext ==
    \E t \in Tasks :
        \/ db_acquire(t)
        \/ db_execute(t)
        \/ RotateEnter(t)
        \/ RotateWake(t)
        \/ RotateAfterSave(t)
        \/ \E c \in 1..MaxChars : RecordUsage(t, c)
        \/ RecordAfterSave(t)

RaceSpec == RaceInit /\ [][RaceNext]_vars

\* The tasks that ran operation o, once every task has returned.
Returned(o) ==
    IF \A t \in Tasks : pc[t] = "idle" /\ pending[t] # "record_usage"
    THEN {t \in Tasks : call[t].op = o}
    ELSE {}

\* C1: when K rotate_active_project() calls launched together from index
\* i have all returned, the active index is (i + 1) mod N in memory and
\* in the state store, whatever K is.
C1_ConcurrentRotationsAdvanceOnce ==
    LET R == Returned("rotate_active_project") IN
    (R # {} /\ Returned("record_usage") = {}) =>
        \A t \in R :
            /\ pool_state.active_project_index =
                  (call[t].idx0 + 1) % Len(project_ids)
            /\ db.gcp_pool_state.active_project_index =
                  (call[t].idx0 + 1) % Len(project_ids)

\* The position of project p in the pool.
IndexOf(p) == CHOOSE i \in 0..(Len(project_ids) - 1) : project_ids[i + 1] = p

\* C2: when record_usage calls in flight together for the same active
\* project have each seen its counter at or above rotation_threshold,
\* the pool has moved on by one project only once they have returned.
C2_InterleavedRecordsRotateOnce ==
    LET R == Returned("record_usage") IN
    (Returned("rotate_active_project") = {} /\ Cardinality(R) > 1) =>
        \A p \in ProjectSet :
            (\A t \in R : /\ call[t].act0 = p
                          /\ call[t].old + call[t].c >= rotation_threshold)
            => /\ pool_state.active_project_index =
                     (IndexOf(p) + 1) % Len(project_ids)
               /\ active_project_id = get_active_project_details(
                     (IndexOf(p) + 1) % Len(project_ids))

\* ------------------------------------------- the translation requests
\* translate_text's guard: the translator is initialized and configured.
Usable ==
    /\ translator.is_initialized
    /\ translator.client # NoProject
    /\ translator.parent # NoProject

\* The project a task's record_usage call has added to.
Charged(u) ==
    IF call[u].op = "record_usage" THEN call[u].act0 ELSE tr[u].charged

\* The projects some record_usage call has seen at the threshold and is
\* rotating away from: it waits for the lock or for the index to be stored.
RotatingAway ==
    {Charged(u) : u \in {v \in Tasks : /\ op[v] = "record_usage"
                                       /\ pc[v] \in {"rot_wait", "rot_save"}}}

\* translate_text hands the request to the client (run_in_executor) and
\* suspends until the remote call is over.
RemoteCall(t, o, r) ==
    /\ tr' = [tr EXCEPT ![t] = [r EXCEPT !.left = @ - 1,
                                         !.issued = @ + 1,
                                         !.served = translator.client,
                                         !.rotating = @ \cup RotatingAway]]
    /\ pc' = [pc EXCEPT ![t] = "tr_call"]
    /\ op' = [op EXCEPT ![t] = o]
    /\ UNCHANGED pending

\* The request's characters are recorded: record_usage(character_count).
RecordRequest(t, r, character_count) ==
    /\ tr' = [tr EXCEPT ![t] =
            [r EXCEPT !.left = 0,
                      !.charged = active_project_id,
                      !.recorded = IF active_project_id = NoProject
                                   THEN 0 ELSE character_count]]
    /\ RecordBody(t, character_count)

\* perform_translation(text, target_lang), len(text) = n, up to the
\* suspension in translate_text or to its return.
PerformTranslation(t, n) ==
    /\ CanCall(t, "perform_translation")
    /\ total_characters_used + n <= usage_limits.max_usage
    /\ StartCall(t, "perform_translation", n)
    /\ rotations' = StartRot
    /\ LET r == [NoRequest EXCEPT !.n = n, !.langs = 1, !.left = 1] IN
       IF ~translator.is_initialized \/ check_limit_exceeded(n) \/ ~Usable
       THEN \* "unavailable", "limit has been reached", or None
            /\ tr' = [tr EXCEPT ![t] = r]
            /\ Finish(t)
       ELSE RemoteCall(t, "perform_translation", r)
    /\ UNCHANGED <<now, config, readyVars, db, gcpVars, ledgerVars, botVars,
                   ioVars, localVars, seq>>

\* handle_message_from_hub's loop over the target languages goes on: the
\* next translate_text, which returns None at once when the translator
\* is not usable, and after the last one the record_usage call.  Every
\* language leaves an entry in translations ("result['translated_text']
\* if result else processed_text"), so all of them are counted.
HubNext(t, r) ==
    IF r.left > 0 /\ Usable
    THEN /\ RemoteCall(t, "handle_message_from_hub", r)
         /\ UNCHANGED <<usage_state, new_usage, ioVars, seq>>
    ELSE RecordRequest(t, r, r.n * r.langs)

\* handle_message_from_hub for a message of n characters and langs
\* target languages.
HandleMessageFromHub(t, n, langs) ==
    /\ CanCall(t, "handle_message_from_hub")
    /\ total_characters_used + n * langs <= usage_limits.max_usage
    /\ StartCall(t, "handle_message_from_hub", n)
    /\ rotations' = StartRot
    /\ HubNext(t, [NoRequest EXCEPT !.n = n, !.langs = langs, !.left = langs])
    /\ UNCHANGED <<now, config, readyVars, db, gcpVars, active_project_id,
                   current_month, botVars, current_month_str, exc>>

\* The remote call is over: a translation ("ok"), the text unchanged
\* because it already is in the target language ("same"), or no result
\* ("fail": an exception, or no translations).
TranslateReturn(t, res) ==
    /\ pc[t] = "tr_call"
    /\ LET r == [tr[t] EXCEPT !.ok = @ + (IF res = "fail" THEN 0 ELSE 1)] IN
       IF call[t].op = "perform_translation"
       THEN IF res = "ok"
            THEN RecordRequest(t, r, r.n)
            ELSE /\ tr' = [tr EXCEPT ![t] = r]
                 /\ Finish(t)
                 /\ UNCHANGED <<usage_state, new_usage, ioVars, seq>>
       ELSE HubNext(t, r)
    /\ UNCHANGED <<now, config, readyVars, db, gcpVars, active_project_id,
                   current_month, botVars, current_month_str, exc, call,
                   prev, rotations>>

\* Requests in flight together over initialized services: each task
\* runs one translation request or one record_usage(), or nothing; some
\* credential sources may not load.
TranslateInit ==
    /\ ServicesWith(LedgersWithin({0, rotation_threshold - 1}),
                    SUBSET ProjectSet)
    /\ Len(tokens) = 1
    /\ monitoring_clients = {}
    /\ InitTasks
    /\ pending \in [Tasks -> {"perform_translation",
                              "handle_message_from_hub", "record_usage",
                              "none"}]

TranslateNext ==
    \E t \in Tasks :
        \/ db_acquire(t)
        \/ db_execute(t)
        \/ RotateWake(t)
        \/ RotateAfterSave(t)
        \/ \E c \in 1..MaxChars : RecordUsage(t, c)
        \/ RecordAfterSave(t)
        \/ \E n \in 1..MaxChars : PerformTranslation(t, n)
        \/ \E n \in 1..MaxChars, langs \in 1..MaxLangs :
              HandleMessageFromHub(t, n, langs)
        \/ \E res \in {"ok", "same", "fail"} : TranslateReturn(t, res)

TranslateSpec == TranslateInit /\ [][TranslateNext]_vars

\* C12: record_usage is called for a translation request only with the
\* characters of remote calls that returned a result: what a request
\* has recorded never exceeds its length times the number of its
\* successful remote calls, so a failed call adds to no counter.
C12_NoUsageForFailedCalls ==
    \A t \in Tasks : tr[t].recorded <= tr[t].n * tr[t].ok

\* The step in which task t's rotation re-initialises the translator.
Reconfigures(t) == pc[t] = "rot_save" /\ pc'[t] # "rot_save"

\* C13: an initialize_client that fails (the account's credential source
\* does not load) leaves is_initialized false; while the flag is false
\* no translate_text call issues a remote call, so none goes through the
\* client configured before; and the flag becomes true again only in a
\* reconfiguration for an account whose credential source loads.
C13_FailedClientRefuses ==
    [][\A t \in Tasks :
          /\ ( /\ Reconfigures(t)
               /\ get_active_project_details(pool_state.active_project_index)
                      \notin valid_creds )
             => ~translator'.is_initialized
          /\ tr'[t].issued > tr[t].issued => translator.is_initialized
          /\ (~translator.is_initialized /\ translator'.is_initialized)
             => \E u \in Tasks :
                   /\ Reconfigures(u)
                   /\ translator'.client \in valid_creds]_vars

\* A hub message handled to its end without one remote call, by a
\* translator whose last reconfiguration failed over a client configured
\* before.
C13_RefusedOverStaleClient ==
    \E t \in Tasks :
        /\ Completed(t, "handle_message_from_hub")
        /\ tr[t].langs > 0
        /\ tr[t].issued = 0
        /\ ~translator.is_initialized
        /\ translator.client # NoProject

\* C14: while a record_usage call that saw the active account at the
\* threshold is rotating away from it, no remote call of another request
\* is issued to that account's client: the account that served a
\* request's last remote call was never one that was being rotated away
\* from when a call of the request was issued (with one account only, the
\* old account is the new one as well, and nothing is asked).
C14_OldClientBlockedWhileRotating ==
    Len(project_ids) > 1
        => \A t \in Tasks : tr[t].served \notin tr[t].rotating

InRotation(t) == pc[t] = "rot_save"

\* C17: at most one rotate_active_project execution is between reading
\* the active index and finishing the reconfiguration of the client, and
\* it is the one that holds the rotation lock.
C17_OneRotationAtATime ==
    \A t \in Tasks :
        InRotation(t) =>
            /\ rotation_lock = t
            /\ \A u \in Tasks : InRotation(u) => u = t

\* One rotation is under way while another caller waits for the lock.
C17_RotationContended ==
    \E t, u \in Tasks :
        /\ InRotation(t)
        /\ pc[u] = "rot_wait"
        /\ lock_waiters = <<u>>

\* ------------------------------------- concurrent identity callers
\* get_active_token() calls in flight together over initialized
\* services, the account pool exhausted or not.
TokenRaceInit ==
    /\ ServicesOver(LedgersWithin({0, rotation_threshold}))
    /\ monitoring_clients = {}
    /\ InitTasks
    /\ pending \in [Tasks -> {"get_active_token", "none"}]

TokenRaceNext ==
    \E t \in Tasks :
        \/ db_acquire(t)
        \/ db_execute(t)
        \/ GetActiveToken(t)
        \/ BotRotateAfterSave(t)

TokenRaceSpec == TokenRaceInit /\ [][TokenRaceNext]_vars

\* C18: get_active_token() calls that run concurrently while the pool is
\* exhausted advance the identity index by exactly one: while two of
\* them are in _rotate_to_next_bot together, the index is one past the
\* index i that each of them was called with, (i + 1) mod M.
C18_ConcurrentTokenCallsAdvanceOnce ==
    \A t, u \in Tasks :
        ( /\ t # u
          /\ pc[t] = "bot_rot_save" /\ call[t].exceeded
          /\ pc[u] = "bot_rot_save" /\ call[u].exceeded )
        => bot_pool_state.active_token_index =
              (call[t].tok0 + 1) % Len(tokens)

\* ------------------------------------------------- the process start
\* A constructor that accepts any configuration.
ConstructionNeverRaises == "none"

\* GoogleProjectPoolManager.__init__, called from RelayBot.__init__ in
\* run_bot before its try block: "if len(self.project_ids) !=
\* len(self.credential_sources): raise ValueError(...)".
ConstructionRaises == IF creds_match THEN "none" ELSE "ValueError"

\* An initialize that goes on without tokens.
TokensNotChecked == TRUE

\* BotPoolManager.initialize's "if not self.tokens: ... return" does not
\* apply: tokens are configured.
HasTokens == tokens # <<>>

\* run_bot() up to its first suspension: RelayBot is constructed, the
\* state store connects, and BotPoolManager.initialize reads the pool
\* state, or returns at once when there are no tokens and
\* get_active_token finds the manager uninitialized.
RunBot(t) ==
    /\ process = "boot"
    /\ CanCall(t, "run_bot")
    /\ StartCall(t, "run_bot", 0)
    /\ IF ConstructionRaises # "none"
       THEN /\ RaiseIn(t, "run_bot", ConstructionRaises)
       ELSE IF ~HasTokens
       THEN /\ RaiseIn(t, "run_bot", "RuntimeError")
       ELSE /\ pc' = [pc EXCEPT ![t] = "binit_get"]
            /\ op' = [op EXCEPT ![t] = "run_bot"]
            /\ DbCall(t, "get", "bot_pool_state")
            /\ UNCHANGED <<process, exc, pending>>
    /\ UNCHANGED <<now, config, readyVars, tr, db, gcpVars, ledgerVars, bot_pool_state,
                   bot_is_initialized, new_usage, current_month_str,
                   rotations, seq>>

\* initialize's get_state has returned.  On the first run the index is
\* set to 0 and stored; otherwise the manager is initialized and run_bot
\* goes on to get_active_token().
BotInitAfterGet(t) ==
    /\ Resumed(t, "binit_get")
    /\ IF snap[t].active_token_index = NoIndex
       THEN /\ bot_pool_state' = [active_token_index |-> 0]
            /\ pc' = [pc EXCEPT ![t] = "binit_save"]
            /\ DbCall(t, "set", "bot_pool_state")
            /\ UNCHANGED <<bot_is_initialized, process, op, exc, pending>>
       ELSE /\ bot_is_initialized' = TRUE
            /\ GetTokenBody(t, "run_bot", TRUE, snap[t])
    /\ UNCHANGED <<now, config, readyVars, tr, db, gcpVars, ledgerVars, new_usage,
                   current_month_str, call, prev, rotations, seq>>

\* The first run's set_state has returned: usage_manager.reset_usage().
BotInitAfterSave(t) ==
    /\ Resumed(t, "binit_save")
    /\ current_month' = now
    /\ usage_state' = reset_usage
    /\ pc' = [pc EXCEPT ![t] = "binit_reset"]
    /\ DbCall(t, "set", "usage_tracker")
    /\ UNCHANGED <<now, config, readyVars, tr, db, gcpVars, active_project_id, botVars, op,
                   localVars, histVars>>

\* reset_usage has returned: the first run ends at its raise statement,
\* the identity layer's signal to restart.
BotInitAfterReset(t) ==
    /\ Resumed(t, "binit_reset")
    /\ call' = [call EXCEPT ![t].site = "initialize"]
    /\ Raise(t, InitializeRaises)
    /\ UNCHANGED <<now, config, readyVars, tr, db, gcpVars, ledgerVars, bot_pool_state,
                   bot_is_initialized, new_usage, current_month_str, prev,
                   rotations, seq>>

\* The user stops the running bot.
Interrupt ==
    /\ process = "running"
    /\ process' = app_main("KeyboardInterrupt")
    /\ UNCHANGED <<now, config, readyVars, tr, db, gcpVars, ledgerVars, bot_pool_state,
                   bot_is_initialized, pc, op, ioVars, localVars, histVars>>

\* The managers as RelayBot.__init__ constructs them.
Constructed ==
    /\ pool_state = [active_project_index |-> NoIndex]
    /\ rotation_lock = 0
    /\ lock_waiters = <<>>
    /\ translator = NoTranslator
    /\ gcp_is_initialized = FALSE
    /\ usage_is_initialized = FALSE
    /\ usage_state = EmptyState
    /\ active_project_id = NoProject
    /\ current_month = NoMonth
    /\ bot_pool_state = [active_token_index |-> NoIndex]
    /\ bot_is_initialized = FALSE
    /\ monitoring_clients = {}

\* The host starts the process again after it has exited; the state
\* store is all that is left of the last run.
Restart ==
    /\ process \in {"exit_rotation", "exit_user", "exit_error"}
    /\ process' = "boot"
    /\ pool_state' = [active_project_index |-> NoIndex]
    /\ rotation_lock' = 0
    /\ lock_waiters' = <<>>
    /\ translator' = NoTranslator
    /\ gcp_is_initialized' = FALSE
    /\ usage_is_initialized' = FALSE
    /\ usage_state' = EmptyState
    /\ active_project_id' = NoProject
    /\ current_month' = NoMonth
    /\ bot_pool_state' = [active_token_index |-> NoIndex]
    /\ bot_is_initialized' = FALSE
    /\ pc' = [t \in Tasks |-> "idle"]
    /\ op' = [t \in Tasks |-> "none"]
    /\ io' = [t \in Tasks |-> "none"]
    /\ req' = [t \in Tasks |-> [kind |-> "none", key |-> "none"]]
    /\ snap' = [t \in Tasks |-> EmptyState]
    /\ new_usage' = [t \in Tasks |-> 0]
    /\ current_month_str' = [t \in Tasks |-> NoMonth]
    /\ exc' = [t \in Tasks |-> "none"]
    /\ call' = [t \in Tasks |-> NoCall]
    /\ prev' = [t \in Tasks |-> NoPrev]
    /\ rotations' = 0
    /\ seq' = NoSeq
    /\ pending' = [t \in Tasks |-> IF t = 1 THEN "run_bot" ELSE "none"]
    /\ tr' = [t \in Tasks |-> NoRequest]
    /\ UNCHANGED <<now, config, db>>

\* The process starts over a state store left by earlier runs, or empty.
BootInit ==
    /\ now = 1
    /\ project_ids \in Pools(MaxProjects)
    /\ tokens \in Pools(MaxTokens) \cup {<<>>}
    /\ creds_match = TRUE
    /\ usage_limits = ScaledLimits
    /\ valid_creds = ProjectSet
    /\ \E i \in 0..(Len(project_ids) - 1),
          j \in {NoIndex} \cup 0..(Len(tokens) - 1),
          ledger \in {EmptyState,
                      [month |-> now,
                       usage_by_project |-> [p \in ProjectSet |-> 0]]} :
          db = [gcp_pool_state |-> [active_project_index |-> i],
                usage_tracker |-> ledger,
                bot_pool_state |-> [active_token_index |-> j]]
    /\ Constructed
    /\ process = "boot"
    /\ InitTasks
    /\ pending = [t \in Tasks |-> IF t = 1 THEN "run_bot" ELSE "none"]

BootNext ==
    \/ Tick
    \/ Interrupt
    \/ Restart
    \/ \E t \in Tasks :
          \/ db_acquire(t)
          \/ db_execute(t)
          \/ RunBot(t)
          \/ BotInitAfterGet(t)
          \/ BotInitAfterSave(t)
          \/ BotInitAfterReset(t)

BootSpec == BootInit /\ [][BootNext]_vars

\* C10: whenever the identity layer raises its rotation signal, run_bot
\* ends with ShutdownForBotRotation and the process exits on the
\* deliberate-rotation path, not on that of an unhandled error.
C10_SignalReachesEntryPoint ==
    \A t \in Tasks :
        (Completed(t, "run_bot") /\ call[t].site # "none") =>
            /\ exc[t] = "ShutdownForBotRotation"
            /\ process = "exit_rotation"

\* ---------------------------------------------- the running process
\* The process has not exited.
Alive == process \in {"boot", "running"}

\* setup_hook has finished and the bot is online: its message handlers
\* run, here one request after the other.
Ready == process = "running" /\ \E t \in Tasks : pending[t] = "any"

\* A start that forgets the stored index.
PoolStateFromZero(state) == [active_project_index |-> 0]

\* "self.pool_state = await self.db.get_state(GCP_POOL_STATE_KEY) or {}"
\* and the default: index 0 when none is stored.
LoadedPoolState(state) ==
    IF state.active_project_index = NoIndex
    THEN [active_project_index |-> 0] ELSE state

\* bot.start(token) calls setup_hook, which calls
\* gcp_pool_manager.initialize(translator): it returns at once when no
\* project is configured, and otherwise suspends in db.get_state.
SetupHook(t) ==
    /\ process = "running"
    /\ Completed(t, "run_bot")
    /\ pending[t] = "done"
    /\ StartCall(t, "gcp_initialize", 0)
    /\ IF project_ids = <<>>
       THEN \* "FATAL: GOOGLE_PROJECT_IDS is not set."; return
            UNCHANGED <<pc, op, ioVars>>
       ELSE /\ pc' = [pc EXCEPT ![t] = "ginit_get"]
            /\ op' = [op EXCEPT ![t] = "run_bot"]
            /\ DbCall(t, "get", "gcp_pool_state")
    /\ UNCHANGED <<now, config, readyVars, tr, db, gcpVars, ledgerVars,
                   botVars, localVars, pending, rotations, seq>>

\* The end of GoogleProjectPoolManager.initialize: the translator is
\* configured for the project at index i and the manager is initialized.
GcpConfigure(t, i) ==
    /\ translator' = initialize_client(get_active_project_details(i))
    /\ gcp_is_initialized' = TRUE
    /\ pc' = [pc EXCEPT ![t] = "idle"]
    /\ op' = [op EXCEPT ![t] = "none"]
    /\ DbReturn(t)

\* initialize's get_state has returned.
GcpInitAfterGet(t) ==
    /\ Resumed(t, "ginit_get")
    /\ pool_state' = LoadedPoolState(snap[t])
    /\ IF snap[t].active_project_index = NoIndex
       THEN /\ pc' = [pc EXCEPT ![t] = "ginit_save"]
            /\ DbCall(t, "set", "gcp_pool_state")
            /\ UNCHANGED <<translator, gcp_is_initialized, op>>
       ELSE GcpConfigure(t, LoadedPoolState(snap[t]).active_project_index)
    /\ UNCHANGED <<now, config, usage_is_initialized, tr, db, rotation_lock,
                   lock_waiters, ledgerVars, botVars, localVars, histVars>>

\* The first run's set_state has returned.
GcpInitAfterSave(t) ==
    /\ Resumed(t, "ginit_save")
    /\ GcpConfigure(t, pool_state.active_project_index)
    /\ UNCHANGED <<now, config, usage_is_initialized, tr, db, pool_state,
                   rotation_lock, lock_waiters, ledgerVars, botVars,
                   localVars, histVars>>

\* setup_hook goes on with usage_manager.initialize(): it returns at once
\* when the project pool is not initialized, and otherwise caches the
\* active project and suspends in _load_state.
UsageInitialize(t) ==
    /\ process = "running"
    /\ Completed(t, "gcp_initialize")
    /\ IF ~gcp_is_initialized
       THEN \* "UsageManager cannot initialize"; return
            /\ StartCall(t, "usage_initialize", 0)
            /\ UNCHANGED <<active_project_id, pc, op, ioVars,
                           current_month_str, rotations, seq>>
       ELSE /\ active_project_id' =
                  get_active_project_details(pool_state.active_project_index)
            /\ StartCall(t, "_load_state", 0)
            /\ op' = [op EXCEPT ![t] = "_load_state"]
            /\ LoadCall(t)
    /\ UNCHANGED <<now, config, readyVars, tr, db, gcpVars, usage_state,
                   current_month, botVars, new_usage, exc, pending>>

\* usage_manager.initialize() is over (the usage manager is initialized
\* when its _load_state ran) and setup_hook calls
\* bot_pool_manager.initialize() once more: it suspends in db.get_state.
BotInitialize(t) ==
    /\ process = "running"
    /\ pending[t] = "done"
    /\ \/ Completed(t, "usage_initialize")
       \/ Completed(t, "_load_state")
    /\ usage_is_initialized' = (call[t].op = "_load_state")
    /\ StartCall(t, "bot_initialize", 0)
    /\ pc' = [pc EXCEPT ![t] = "binit2_get"]
    /\ op' = [op EXCEPT ![t] = "run_bot"]
    /\ DbCall(t, "get", "bot_pool_state")
    /\ UNCHANGED <<now, config, gcp_is_initialized, tr, db, gcpVars,
                   ledgerVars, botVars, localVars, pending, rotations, seq>>

\* That get_state has returned.  The index run_bot's initialize found is
\* found again, the rest of setup_hook (cogs, command tree) runs and the
\* bot is online; were no index stored, the first-run branch would be
\* taken as in run_bot.
BotInitAgainAfterGet(t) ==
    /\ Resumed(t, "binit2_get")
    /\ IF snap[t].active_token_index = NoIndex
       THEN /\ bot_pool_state' = [active_token_index |-> 0]
            /\ pc' = [pc EXCEPT ![t] = "binit_save"]
            /\ DbCall(t, "set", "bot_pool_state")
            /\ UNCHANGED <<bot_is_initialized, op, pending>>
       ELSE /\ bot_pool_state' = snap[t]
            /\ bot_is_initialized' = TRUE
            /\ pc' = [pc EXCEPT ![t] = "idle"]
            /\ op' = [op EXCEPT ![t] = "none"]
            /\ DbReturn(t)
            /\ pending' = [pending EXCEPT ![t] = "any"]
    /\ UNCHANGED <<now, config, readyVars, tr, db, gcpVars, ledgerVars,
                   process, localVars, call, prev, rotations, seq>>

\* What a coroutine of the live process does next.
LifeStep(t) ==
    \/ Alive /\ db_acquire(t)
    \/ Alive /\ RunBot(t)
    \/ Alive /\ BotInitAfterGet(t)
    \/ Alive /\ BotInitAfterSave(t)
    \/ Alive /\ BotInitAfterReset(t)
    \/ Alive /\ SetupHook(t)
    \/ Alive /\ GcpInitAfterGet(t)
    \/ Alive /\ GcpInitAfterSave(t)
    \/ Alive /\ UsageInitialize(t)
    \/ Alive /\ LoadAfterGet(t)
    \/ Alive /\ ResetAfterSave(t)
    \/ Alive /\ BotInitialize(t)
    \/ Alive /\ BotInitAgainAfterGet(t)
    \/ Ready /\ \E c \in 1..MaxChars : RecordUsage(t, c)
    \/ Alive /\ RecordAfterSave(t)
    \/ Alive /\ RotateAfterSave(t)

\* The process starts over a state store left by earlier runs, or empty,
\* with a configuration that may name no project, or fewer credential
\* sources than projects.
LifeInit ==
    /\ now = 1
    /\ project_ids \in Pools(MaxProjects) \cup {<<>>}
    /\ tokens \in Pools(MaxTokens)
    /\ creds_match \in BOOLEAN
    /\ usage_limits = ScaledLimits
    /\ valid_creds = ProjectSet
    /\ \E i \in {NoIndex} \cup 0..(Len(project_ids) - 1),
          j \in {NoIndex} \cup 0..(Len(tokens) - 1),
          ledger \in {EmptyState}
                        \cup LedgersWithin({0, rotation_threshold - 1}) :
          db = [gcp_pool_state |-> [active_project_index |-> i],
                usage_tracker |-> ledger,
                bot_pool_state |-> [active_token_index |-> j]]
    /\ Constructed
    /\ process = "boot"
    /\ InitTasks
    /\ pending = [t \in Tasks |-> IF t = 1 THEN "run_bot" ELSE "none"]

LifeNext ==
    \/ Tick
    \/ Interrupt
    \/ Restart
    \/ \E t \in Tasks :
          \/ LifeStep(t)
          \/ db_execute(t)

LifeSpec == LifeInit /\ [][LifeNext]_vars

\* The process keeps running, and its host restarts it when it exits.
LifeFairness ==
    /\ WF_vars(Restart)
    /\ \A t \in Tasks : WF_vars(LifeStep(t) \/ db_execute(t))

LifeFairSpec == LifeSpec /\ LifeFairness

\* The bot is online and the whole account pool is exhausted in the
\* current month: check_limit_exceeded(0) is true.
Exhausted == Ready /\ check_limit_exceeded(0)

\* C11: once recorded usage has exhausted the whole account pool, the
\* identity pool's stored index is eventually advanced, from j to
\* (j + 1) mod M, and the process eventually exits for restart, provided
\* the process keeps running and its host restarts it when it exits.
C11_ExhaustionLeadsToRestart ==
    \A j \in 0..(MaxTokens - 1) :
        (Exhausted /\ db.bot_pool_state.active_token_index = j)
            ~> ( /\ process = "exit_rotation"
                 /\ db.bot_pool_state.active_token_index =
                       (j + 1) % Len(tokens) )

\* The step in which GoogleProjectPoolManager.initialize completes.
InitializeCompletes == ~gcp_is_initialized /\ gcp_is_initialized'

C19_MismatchStopsConstruction ==
    ~creds_match =>
        /\ process \in {"boot", "exit_error"}
        /\ process = "exit_error" => \E t \in Tasks : exc[t] = "ValueError"
        /\ ~gcp_is_initialized
        /\ ~usage_is_initialized
        /\ ~bot_is_initialized
        /\ translator = NoTranslator
        /\ pool_state.active_project_index = NoIndex

\* The start has ended on the constructor's ValueError.
C19_ConstructionFailed ==
    /\ ~creds_match
    /\ process = "exit_error"
    /\ \E t \in Tasks : Completed(t, "run_bot") /\ exc[t] = "ValueError"

\* C20: with an empty account list GoogleProjectPoolManager.initialize()
\* fails fatally and startup is halted: the bot never goes online with
\* an uninitialized credential pool.
C20_EmptyPoolHaltsStartup ==
    project_ids = <<>> => ~Ready

\* C21: with no identity token configured the start ends in a fatal
\* error: initialize returns without initializing the manager,
\* get_active_token raises RuntimeError instead of returning a token,
\* and run_bot ends on it before bot.start.
C21_NoTokensIsFatal ==
    tokens = <<>> =>
        /\ process \in {"boot", "exit_error"}
        /\ ~bot_is_initialized
        /\ \A t \in Tasks : pc[t] = "idle"
        /\ process = "exit_error" =>
              \E t \in Tasks :
                  Completed(t, "run_bot") /\ exc[t] = "RuntimeError"

\* The start without tokens has ended on the RuntimeError.
C21_EndedWithoutToken ==
    /\ tokens = <<>>
    /\ process = "exit_error"
    /\ \E t \in Tasks : Completed(t, "run_bot") /\ exc[t] = "RuntimeError"

\* C22: on the first run, with no identity pool state stored,
\* BotPoolManager.initialize() stores index 0 and completes normally:
\* the manager is initialized and neither the rotation signal nor any
\* other error is raised.
C22_FirstRunInitializes ==
    \A t \in Tasks :
        (Completed(t, "run_bot") /\ call[t].site = "initialize") =>
            /\ db.bot_pool_state.active_token_index = 0
            /\ bot_is_initialized
            /\ exc[t] = "none"

\* C23: with a pool of exactly one token, an identity rotation leaves
\* the active token index at 0, in memory and in the state store, and
\* ends with the ShutdownForBotRotation signal.
C23_SingleTokenRotatesToItself ==
    \A t \in Tasks :
        ( /\ Len(tokens) = 1
          /\ Completed(t, "get_active_token")
          /\ call[t].exceeded ) =>
            /\ bot_pool_state.active_token_index = 0
            /\ db.bot_pool_state.active_token_index = 0
            /\ exc[t] = "ShutdownForBotRotation"

\* ------------------------------------------- the ledger with resets
\* reset_usage() called by itself, up to the suspension in _save_state.
ResetUsage(t) ==
    /\ CanCall(t, "reset_usage")
    /\ StartCall(t, "reset_usage", 0)
    /\ current_month' = now
    /\ usage_state' = reset_usage
    /\ pc' = [pc EXCEPT ![t] = "reset_save"]
    /\ op' = [op EXCEPT ![t] = "reset_usage"]
    /\ DbCall(t, "set", "usage_tracker")
    /\ rotations' = StartRot
    /\ seq' = NoSeq
    /\ UNCHANGED <<now, config, readyVars, tr, db, gcpVars,
                   active_project_id, botVars, localVars, pending>>

\* The usage ledger's operations, reset_usage among them, one call
\* after the other.
LedgerNext ==
    \/ Next
    \/ \E t \in Tasks : ResetUsage(t)

LedgerSpec == Init /\ [][LedgerNext]_vars

\* The ledger reset_usage() builds in month m.
FreshLedger(m) ==
    [month |-> m, usage_by_project |-> [p \in ProjectSet |-> 0]]

\* C24: a completed reset_usage() has set the ledger's month to the
\* month of the call and the counter of every project of the pool to 0,
\* in memory and in the state store; a second call right after the
\* first, in the same month, leaves in memory and in the store what the
\* first call left.
C24_ResetIsIdempotent ==
    \A t \in Tasks :
        Completed(t, "reset_usage") =>
            /\ usage_state = FreshLedger(call[t].now0)
            /\ db.usage_tracker = usage_state
            /\ ( /\ prev[t].op = "reset_usage"
                 /\ prev[t].now0 = call[t].now0 )
               => /\ usage_state = call[t].mem0
                  /\ db.usage_tracker = call[t].mem0

\* Two reset_usage() calls in a row in the same month have completed,
\* over a pool of more than one project.
C24_ResetTwice ==
    \E t \in Tasks :
        /\ Completed(t, "reset_usage")
        /\ prev[t].op = "reset_usage"
        /\ prev[t].now0 = call[t].now0
        /\ Len(project_ids) > 1

\* The ledger st has counters for projects of the pool only, each a
\* non-negative integer.
LedgerWellFormed(st) ==
    /\ DOMAIN st.usage_by_project \subseteq ProjectSet
    /\ \A p \in DOMAIN st.usage_by_project : st.usage_by_project[p] \in Nat

\* C25: in every reachable state the keys of usage_by_project are
\* account ids of the pool and every counter is a non-negative integer,
\* in memory and in the stored ledger.
C25_LedgerKeysAndCounters ==
    /\ LedgerWellFormed(usage_state)
    /\ LedgerWellFormed(db.usage_tracker)

\* A reconciliation has completed over a ledger with a counter for each
\* of two projects, one of them above 0, stored as it is in memory.
C25_LedgerInUse ==
    \E t \in Tasks :
        /\ Completed(t, "sync_with_google")
        /\ Len(project_ids) = 2
        /\ DOMAIN usage_state.usage_by_project = ProjectSet
        /\ \E p \in ProjectSet : usage_state.usage_by_project[p] > 0
        /\ prev[t].op = "record_usage"
        /\ db.usage_tracker = usage_state

\* C26: the active project index changes in memory only in a step of a
\* record_usage call whose new counter has reached rotation_threshold
\* (its rotate_active_project), and in the state store only when that
\* rotation's write executes: record_usage below the threshold,
\* reset_usage, _load_state and sync_with_google leave both unchanged
\* (check_limit_exceeded is a pure function of the ledger).
C26_IndexChangedByRotationOnly ==
    [][/\ pool_state' # pool_state =>
            \E t \in Tasks :
                /\ call[t].op = "record_usage"
                /\ pc[t] \in {"rec_save", "rot_wait"}
                /\ new_usage[t] >= rotation_threshold
       /\ db'.gcp_pool_state # db.gcp_pool_state =>
            \E t \in Tasks :
                /\ pc[t] = "rot_save"
                /\ io[t] = "execute"
                /\ req[t].key = "gcp_pool_state"]_vars

\* A reset_usage() has completed after a record_usage that stayed below
\* the threshold, with the index where it was, over a pool of more than
\* one project.
C26_IndexLeftAlone ==
    \E t \in Tasks :
        /\ Completed(t, "reset_usage")
        /\ prev[t].op = "record_usage"
        /\ ~prev[t].crossed
        /\ Len(project_ids) > 1
        /\ pool_state.active_project_index = call[t].idx0
        /\ db.gcp_pool_state.active_project_index = call[t].idx0

\* C27: a perform_translation request that was admitted (its limit check
\* was false) and has recorded its usage leaves total_characters_used at
\* most at safe_limit, however the perform_translation requests in
\* flight interleave.
C27_AdmittedStaysWithinSafeLimit ==
    ( /\ \A u \in Tasks : call[u].op \in {"perform_translation", "none"}
      /\ current_month = now )
    => \A t \in Tasks :
          ( /\ call[t].op = "perform_translation"
            /\ call[t].now0 = now
            /\ tr[t].recorded > 0 )
          => total_characters_used <= safe_limit

\* ------------------------------------------------ the active account
\* self.credential_sources: one source per project, named here by its
\* position in the configuration (the lengths are equal, or the
\* constructor has raised).
credential_sources == [k \in 1..Len(project_ids) |-> k]

\* "active_index = self.pool_state.get('active_project_index', 0)"
ActiveIndexOf(state) ==
    IF state.active_project_index = NoIndex
    THEN 0 ELSE state.active_project_index

\* get_active_project_details(): id and source, both at the active index.
ActiveProjectDetails ==
    LET active_index == ActiveIndexOf(pool_state) IN
    [id |-> project_ids[active_index + 1],
     source |-> credential_sources[active_index + 1]]

\* C28: with a pool of N >= 1 accounts, the active index is in 0..N-1 in
\* memory (an empty pool_state reads as 0) and in the stored PoolState
\* when there is one, and get_active_project_details() returns an
\* account of the pool with the credential source of the same position.
C28_ActiveIndexInRange ==
    LET N == Len(project_ids) IN
    N >= 1 =>
        /\ ActiveIndexOf(pool_state) \in 0..(N - 1)
        /\ gcp_is_initialized => pool_state.active_project_index \in 0..(N - 1)
        /\ db.gcp_pool_state.active_project_index \in {NoIndex} \cup 0..(N - 1)
        /\ ActiveProjectDetails.id \in ProjectSet
        /\ \E k \in 1..N : /\ ActiveProjectDetails.id = project_ids[k]
                           /\ ActiveProjectDetails.source = credential_sources[k]

\* A rotation from the last account of a pool of two has gone back to the
\* first one, in memory and in the store.
C28_WrappedAround ==
    /\ Len(project_ids) = 2
    /\ gcp_is_initialized
    /\ pool_state.active_project_index = 0
    /\ db.gcp_pool_state.active_project_index = 0
    /\ \E t \in Tasks : /\ Completed(t, "record_usage")
                        /\ call[t].idx0 = 1

\* C29: when no task is inside record_usage or a rotation, and
\* record_usage calls are all that has run, in any order and
\* interleaving, _active_project_id is the id of the project at the
\* pool's active index.
C29_CacheFollowsActiveIndex ==
    ( /\ \A t \in Tasks : /\ pc[t] = "idle"
                          /\ call[t].op \in {"record_usage", "none"}
      /\ rotation_lock = 0 )
    => active_project_id =
           get_active_project_details(pool_state.active_project_index)

\* Two record_usage calls were in flight together, each rotated, and both
\* have returned.
C29_BothRotated ==
    /\ \A t \in Tasks : /\ Completed(t, "record_usage")
                        /\ call[t].old + call[t].c >= rotation_threshold
                        /\ pc[t] = "idle"
    /\ rotations = 2
    /\ Len(project_ids) = 2

\* The id the rotation of task t returns as it leaves rotate_active_project
\* is that of the project at the active index, and a caller in
\* record_usage holds it.
RotationReturnsActive(t) ==
    (pc[t] = "rot_save" /\ pc'[t] # "rot_save") =>
        /\ translator'.is_initialized =>
               translator'.parent = get_active_project_details(
                                        pool_state'.active_project_index)
        /\ op[t] = "record_usage" =>
               active_project_id' = get_active_project_details(
                                        pool_state'.active_project_index)

\* C30: whenever no rotation is between storing the new index and
\* reconfiguring the client, and the translator is initialized, the
\* translator's parent is the project at the pool's active index; and a
\* rotation returns the id of that project.
C30_TranslatorFollowsActiveIndex ==
    /\ []( ( /\ \A t \in Tasks : ~InRotation(t)
             /\ translator.is_initialized )
           => translator.parent =
                 get_active_project_details(pool_state.active_project_index) )
    /\ [][\A t \in Tasks : RotationReturnsActive(t)]_vars

\* A record_usage call has rotated a pool of two and returned, and the
\* translator is initialized for the new project.
C30_ReconfiguredForNext ==
    /\ Len(project_ids) = 2
    /\ \A t \in Tasks : ~InRotation(t)
    /\ translator.is_initialized
    /\ \E t \in Tasks : /\ pc[t] = "idle"
                        /\ call[t].op = "record_usage"
                        /\ call[t].idx0 # pool_state.active_project_index
                        /\ translator.parent # call[t].act0

\* C31: the characters of a perform_translation call that got a
\* translation are added to the counter of the project whose client
\* served the remote call, also when another task has rotated the pool
\* between the remote call and record_usage.
C31_ChargedToServingAccount ==
    \A t \in Tasks :
        ( /\ call[t].op = "perform_translation"
          /\ valid_creds = ProjectSet
          /\ tr[t].ok = 1
          /\ tr[t].recorded > 0 )
        => tr[t].charged = tr[t].served

\* The sum of a ledger's counters.
TotalOf(st) == SumOver(st.usage_by_project, DOMAIN st.usage_by_project)

\* C32: when record_usage(c_i) calls run in any interleaving within one
\* month, with no reconciliation and no reset, and all have returned, the
\* sum of all projects' counters has grown by the sum of the c_i, in
\* memory and in the state store.
C32_ConcurrentRecordsAddUp ==
    ( /\ seq.valid
      /\ \A t \in Tasks : Completed(t, "record_usage") )
    => LET before == SumOver(seq.base, ProjectSet)
           added == SumOver([t \in Tasks |-> call[t].c], Tasks)
       IN /\ TotalOf(usage_state) = before + added
          /\ TotalOf(db.usage_tracker) = before + added

\* ------------------------------------- reloads next to record_usage
\* The tasks.loop reconciliation, the /usage command's reload and the
\* message handlers' record_usage calls run as tasks of one event loop:
\* each task runs one of these operations, in flight together.
ReloadInit ==
    /\ InitServices
    /\ Len(tokens) = 1
    /\ monitoring_clients \in SUBSET ProjectSet
    /\ InitTasks
    /\ pending \in [Tasks -> {"record_usage", "_load_state",
                              "sync_with_google"}]

ReloadNext ==
    \/ Tick
    \/ \E t \in Tasks :
          \/ StoreStep(t)
          \/ \E c \in 1..MaxChars : RecordUsage(t, c)
          \/ LoadState(t)
          \/ SyncWithGoogle(t)
          \/ LoadAfterGet(t)
          \/ ResetAfterSave(t)
          \/ SyncAfterSave(t)

ReloadSpec == ReloadInit /\ [][ReloadNext]_vars

\* C33: when a _load_state (by itself or at the start of
\* sync_with_google) runs together with record_usage calls and all of
\* them have returned, the ledger's counters in memory equal those in the
\* state store.
C33_ReloadKeepsPersistedRecords ==
    ( /\ \A t \in Tasks : /\ pc[t] = "idle"
                          /\ pending[t] = "done"
      /\ \E t \in Tasks : call[t].op = "record_usage"
      /\ \E t \in Tasks : call[t].op \in {"_load_state", "sync_with_google"} )
    => \A p \in ProjectSet :
          UsageOf(usage_state, p) = UsageOf(db.usage_tracker, p)

C35_NewMonthUsageSurvivesRollover ==
    \A t \in Tasks :
        ( /\ Completed(t, "_load_state")
          /\ call[t].now0 = now
          /\ call[t].cm0 # now
          /\ prev[t].op = "record_usage"
          /\ prev[t].now0 = now
          /\ prev[t].c > 0 )
        => total_characters_used >= prev[t].c

\* ------------------------------------------ the default configuration
\* Requests and record_usage calls, one after the other, when the
\* environment sets neither limit nor threshold: one project of the pool
\* starts one or two characters below the rotation threshold, the others
\* unused.
DefaultInit ==
    /\ ServicesUnder(DefaultLimits,
                     {l \in LedgersWithin({0, default_rotation_threshold - 2,
                                           default_rotation_threshold - 1}) :
                         TotalOf(l) \in (default_rotation_threshold - 2)
                                        ..(default_rotation_threshold - 1)},
                     {ProjectSet})
    /\ Len(tokens) = 1
    /\ monitoring_clients = {}
    /\ InitSequential

DefaultNext ==
    \E t \in Tasks :
        \/ StoreStep(t)
        \/ \E c \in 1..MaxChars : RecordUsage(t, c)
        \/ \E n \in 1..MaxChars : PerformTranslation(t, n)
        \/ \E res \in {"ok", "same", "fail"} : TranslateReturn(t, res)

DefaultSpec == DefaultInit /\ [][DefaultNext]_vars

\* C36: under the default configuration and with at least two projects,
\* once a record_usage call has taken the first project across the
\* rotation threshold and the pool has rotated, a request of positive
\* length is admitted (its remote call is issued) while the newly
\* active project is below the threshold.
C36_RotationRestoresCapacity ==
    \A t \in Tasks :
        ( /\ usage_limits = DefaultLimits
          /\ Len(project_ids) >= 2
          /\ pool_state.active_project_index = 1
          /\ Completed(t, "perform_translation")
          /\ call[t].c > 0
          /\ call[t].now0 = now
          /\ prev[t].op = "record_usage"
          /\ prev[t].crossed
          /\ call[t].act0 = translator.parent
          /\ translator.is_initialized
          /\ UsageOf(usage_state, call[t].act0)
                < usage_limits.rotation_threshold )
        => tr[t].issued > 0

\* C37: when sync_with_google has returned and the query for project p
\* failed with an error other than NotFound, p's counter is what it was
\* when the call started (zero when the call's _load_state found a new
\* month and reset the ledger), in memory and in the state store; the
\* other projects hold what their queries answered; and the call has
\* not raised.
C37_FailedQueryLeavesCounter ==
    \A t \in Tasks :
        Completed(t, "sync_with_google") =>
            \A p \in monitoring_clients :
                call[t].answers[p].kind = "Error" =>
                    LET kept == IF call[t].rolled THEN 0
                                ELSE UsageOf(call[t].mem0, p)
                    IN /\ UsageOf(usage_state, p) = kept
                       /\ UsageOf(db.usage_tracker, p) = kept
                       /\ exc[t] = "none"
                       /\ \A q \in monitoring_clients \ {p} :
                            LET a == call[t].answers[q] IN
                            /\ (a.kind = "count") =>
                                  /\ UsageOf(usage_state, q) = a.n
                                  /\ UsageOf(db.usage_tracker, q) = a.n
                            /\ (a.kind = "NotFound") =>
                                  /\ UsageOf(usage_state, q) = 0
                                  /\ UsageOf(db.usage_tracker, q) = 0

\* One query failed on a project that had usage, another answered a
\* count that differs from the local counter, and the call is over.
C37_OneFailedOneReconciled ==
    \E t \in Tasks :
        /\ Completed(t, "sync_with_google")
        /\ ~call[t].rolled
        /\ \E p, q \in monitoring_clients :
              /\ call[t].answers[p].kind = "Error"
              /\ UsageOf(call[t].mem0, p) > 0
              /\ UsageOf(usage_state, p) = UsageOf(call[t].mem0, p)
              /\ call[t].answers[q].kind = "count"
              /\ call[t].answers[q].n # UsageOf(call[t].mem0, q)
              /\ UsageOf(usage_state, q) = call[t].answers[q].n

\* -------------------------------------------- cancellation at the end
\* An except clause that catches everything, cancellation included.
CaughtAlways(e) == TRUE

\* "except Exception as e" around the rotation in record_usage:
\* asyncio.CancelledError and KeyboardInterrupt are BaseExceptions and
\* pass through it.
CaughtInRecordUsage(e) == e \notin {"CancelledError", "KeyboardInterrupt"}

\* The task is suspended inside rotate_active_project, called by
\* record_usage: it waits for the lock or for set_state.
InRotateCall(t) ==
    op[t] = "record_usage" /\ pc[t] \in {"rot_wait", "rot_save"}

\* How the cancelled task's operation ends: rotate_active_project raises
\* CancelledError at its await ("async with" releases the lock on the
\* way); record_usage logs it and returns when its except clause catches
\* it, and raises it otherwise.  Every other operation has no handler
\* around its await.
CancelledAs(t) ==
    IF InRotateCall(t) /\ CaughtInRecordUsage("CancelledError")
    THEN "none" ELSE "CancelledError"

\* asyncio.run(run_bot()) ends on KeyboardInterrupt: before it returns it
\* cancels the tasks that are still suspended, and each of them is
\* resumed with CancelledError at its await.  A statement that has not
\* executed in the store by then is dropped.
Shutdown ==
    /\ process = "running"
    /\ \E t \in Tasks : pc[t] # "idle"
    /\ process' = app_main("KeyboardInterrupt")
    /\ exc' = [t \in Tasks |-> IF pc[t] = "idle" THEN exc[t]
                               ELSE CancelledAs(t)]
    /\ call' = [t \in Tasks |-> IF pc[t] = "idle" THEN call[t]
                                ELSE [call[t] EXCEPT !.site = pc[t]]]
    /\ pc' = [t \in Tasks |-> "idle"]
    /\ op' = [t \in Tasks |-> "none"]
    /\ io' = [t \in Tasks |-> "none"]
    /\ req' = [t \in Tasks |-> [kind |-> "none", key |-> "none"]]
    /\ snap' = [t \in Tasks |-> EmptyState]
    /\ new_usage' = [t \in Tasks |-> 0]
    /\ pending' = [t \in Tasks |-> "done"]
    /\ rotation_lock' = 0
    /\ lock_waiters' = <<>>
    /\ UNCHANGED <<now, config, readyVars, tr, db, pool_state, translator,
                   ledgerVars, bot_pool_state, bot_is_initialized,
                   current_month_str, prev, rotations, seq>>

\* record_usage calls in flight together, until the process is stopped.
CancelInit ==
    /\ ServicesOver(LedgersWithin(0..(rotation_threshold - 1)))
    /\ Len(tokens) = 1
    /\ monitoring_clients = {}
    /\ InitTasks
    /\ pending \in [Tasks -> {"record_usage", "none"}]

CancelNext ==
    \/ Shutdown
    \/ \E t \in Tasks :
          \/ db_acquire(t)
          \/ db_execute(t)
          \/ RotateWake(t)
          \/ RotateAfterSave(t)
          \/ \E c \in 1..MaxChars : RecordUsage(t, c)
          \/ RecordAfterSave(t)

CancelSpec == CancelInit /\ [][CancelNext]_vars

\* The record_usage call of task t was inside rotate_active_project when
\* that raised.
RotationRaised(t) ==
    /\ call[t].op = "record_usage"
    /\ call[t].site \in {"rot_wait", "rot_save"}

====
